---- MODULE Spec2Model ----
(***************************************************************************)
(* Voice lifecycle of the "Pro Web Piano" sustain-safe engine              *)
(* (src/unnamed/part_000, first module, lines 1-335).                      *)
(*                                                                         *)
(* The program is single threaded: every listener runs to completion, so   *)
(* each listener is one action.  Deferred work (setTimeout, setInterval)   *)
(* is a pending callback that a later action fires.                        *)
(*                                                                         *)
(* A voice is the pair {osc, gain} made by noteOn.  Voices are numbered in *)
(* creation order; for each one the model keeps the pitch key it was made  *)
(* for and counts what was done to its resource:                           *)
(*   stops   - calls of stopVoiceNow on it                                 *)
(*   fades   - fade-outs issued (cancelScheduledValues + setTargetAtTime)  *)
(*   pending - setTimeout(stopVoiceNow) callbacks not yet fired            *)
(* Strings are sequences of one-character strings.                         *)
(***************************************************************************)
EXTENDS Integers, Sequences, FiniteSets, TLC

(* ------------------------------ bounds -------------------------------- *)

\* Voices created in one run (noteOn calls).
MaxVoices == 2

\* Orientation-change timeouts outstanding at once.
MaxOrient == 1

(* ------------------------- program constants -------------------------- *)

\* state.octaves
Octaves == 2

\* state.baseOct at start
InitBaseOct == 4
InitRelease == 320

\* active.get(key) of a key without a voice (undefined)
None == 0

\* noteToMidi's null
Null == -1

(* --------------------------- note helpers ----------------------------- *)

NAMES == << <<"C">>, <<"C","#">>, <<"D">>, <<"D","#">>, <<"E">>, <<"F">>,
            <<"F","#">>, <<"G">>, <<"G","#">>, <<"A">>, <<"A","#">> , <<"B">> >>

Digits == <<"0","1","2","3","4","5","6","7","8","9">>

\* the character of one decimal digit
DigitChar(d) == Digits[d + 1]

IsDigit(c) == \E d \in 0..9 : DigitChar(d) = c

\* unary plus on a one-digit string: +o
DigitVal(c) == CHOOSE d \in 0..9 : DigitChar(d) = c

\* Number -> decimal string, as template literals and string + number do
RECURSIVE NumStr(_)
NumStr(n) == IF n < 10 THEN <<DigitChar(n)>>
               ELSE NumStr(n \div 10) \o <<DigitChar(n % 10)>>

\* the object literal {C:0, D:2, E:4, F:5, G:7, A:9, B:11}
LetterBase(L) == CASE L = "C" -> 0 [] L = "D" -> 2 [] L = "E" -> 4
                   [] L = "F" -> 5 [] L = "G" -> 7 [] L = "A" -> 9
                   [] L = "B" -> 11

\* note.match(/^([A-G])(#|b)?(\d)$/)
NoteMatches(note) ==
    /\ Len(note) \in {2, 3}
    /\ note[1] \in {"A","B","C","D","E","F","G"}
    /\ Len(note) = 3 => note[2] \in {"#", "b"}
    /\ IsDigit(note[Len(note)])

\* mutant of noteToMidi: octave * 12, without the + 1
noteToMidi_octaveFromZero(note) ==
    IF ~NoteMatches(note) THEN Null
    ELSE LET L      == note[1]
             acc    == IF Len(note) = 3 THEN note[2] ELSE ""
             octave == DigitVal(note[Len(note)])
             v      == LetterBase(L) + (IF acc = "#" THEN 1
                                        ELSE IF acc = "b" THEN -1 ELSE 0)
         IN  octave * 12 + v

noteToMidi(note) ==
    IF ~NoteMatches(note) THEN Null
    ELSE LET L      == note[1]
             acc    == IF Len(note) = 3 THEN note[2] ELSE ""
             octave == DigitVal(note[Len(note)])
             v      == LetterBase(L) + (IF acc = "#" THEN 1
                                        ELSE IF acc = "b" THEN -1 ELSE 0)
         IN  (octave + 1) * 12 + v

midiToNote(m) == NAMES[(m % 12) + 1] \o NumStr((m \div 12) - 1)

\* The data-note names buildPiano gives the key elements for base octave b:
\* twelve names per octave, octaves b .. b + state.octaves - 1.
BuiltNotes(b) ==
    { NAMES[i] \o NumStr(b + o) : i \in 1..12, o \in 0..(Octaves - 1) }

(* ------------------------------ inputs -------------------------------- *)

\* Values typed into the base-octave control (baseOct.oninput takes any
\* number; 9 puts octave 10 on the keyboard).
BaseOctInputs == {4, 9}

\* The key elements that pointer input is drawn from: C4 is on the keyboard
\* built for base octave 4, C10 on the one built for base octave 9.
PointerNotes == { <<"C","4">>, <<"C","1","0">> }

\* 'm' + midi: the pitch key, identified by the value after the 'm'
\* ("mnull" is the key of Null).
KeyOf(midi) == midi

\* the characters of KEY_MAP, in the order of their semitones 0 .. 11
KeyMapChars == <<"A","W","S","E","D","F","T","G","Y","H","U","J">>

\* KEY_MAP.has(k), KEY_MAP.get(k)
KeyMapHas(c) == \E i \in 1..Len(KeyMapChars) : KeyMapChars[i] = c
KeyMapGet(c) == (CHOOSE i \in 1..Len(KeyMapChars) : KeyMapChars[i] = c) - 1

\* The computer keys that keyboard input is drawn from.
KeyChars == {"A"}

\* Z and X keep state.baseOct within these
MinBaseOct == 2
MaxBaseOct == 6

\* the note of a character key: (base + 1) * 12 + semis, with base the base
\* octave plus one when Shift is down
KeyMidi(b, shifted, c) ==
    ((b + (IF shifted THEN 1 ELSE 0)) + 1) * 12 + KeyMapGet(c)

PitchKeys ==
    { KeyOf(noteToMidi(n)) : n \in PointerNotes }
    \cup { KeyOf(KeyMidi(b, sh, c)) :
              b \in MinBaseOct..MaxBaseOct, sh \in BOOLEAN, c \in KeyChars }

Voices == 1..MaxVoices

(* ------------------------------- state -------------------------------- *)

VARIABLES
    active,       \* Map key -> voice (None: no entry)
    voices,       \* sequence of the voices created, see NewVoice
    heldKeys,     \* Set of keys physically held
    sustain,      \* the pedal flag
    sustainPool,  \* Set of keys released while sustain was on
    baseOct,      \* state.baseOct
    release,      \* state.release, in ms
    orient,       \* orientationchange timeouts outstanding
    last,         \* history: the listener that ran last and what it found
    plain,        \* history: only note-on, note-off and release timers so far
    pressed,      \* src/piano.js: the key elements (by note) with a pointer down
    probe,        \* the note helpers under test: argument, stage and results
    input,        \* the physical input: pointers and computer keys that are down
    clock         \* the time in ms, and when and under which release setting
                  \* each voice was faded out

vars == <<active, voices, heldKeys, sustain, sustainPool, baseOct, release,
          orient, last, plain, pressed, probe, input, clock>>

\* the state that the listeners of src/unnamed/part_000 do not have
elsewhere == <<pressed, probe, input, clock>>

\* The engine's data as one value, so that the functions compose.
Eng == [active |-> active, voices |-> voices, heldKeys |-> heldKeys,
        sustain |-> sustain, sustainPool |-> sustainPool,
        release |-> release]

SetEng(e) ==
    /\ active' = e.active
    /\ voices' = e.voices
    /\ heldKeys' = e.heldKeys
    /\ sustain' = e.sustain
    /\ sustainPool' = e.sustainPool
    /\ release' = e.release

\* Array.from(active.keys())
ActiveKeys(e) == { k \in PitchKeys : e.active[k] # None }

(* ------------------------------ engine -------------------------------- *)

\* Math.max(0.02, state.release/1000), in ms: the fade-out's time constant
\* is a third of it, and the deferred stop is set TimerSlack ms after it
MinRelease == 20
TimerSlack == 50
RelMs(r) == IF r > MinRelease THEN r ELSE MinRelease

\* the voice that noteOn creates and starts:
\*   stops    - stops done on the oscillator
\*   fades    - fade-outs issued (cancelScheduledValues + setTargetAtTime)
\*   pending  - deferred stops outstanding
\*   born     - history: state.release when the voice was created
\*   fadeRel  - three times the time constant in ms of the fade-out issued
\*   delay    - the delay in ms of the deferred stop set
NewVoice(e, key) ==
    [key |-> key, stops |-> 0, fades |-> 0, pending |-> 0,
     born |-> e.release, fadeRel |-> 0, delay |-> 0]

stopVoiceNow(e, v) == [e EXCEPT !.voices[v].stops = @ + 1]

\* mutant of Release: the resource is stopped at once as well as on the timer
Release_stopsNowToo(e, v) ==
    [e EXCEPT !.voices[v].fades = @ + 1, !.voices[v].pending = @ + 1,
              !.voices[v].fadeRel = RelMs(e.release),
              !.voices[v].delay = RelMs(e.release) + TimerSlack,
              !.voices[v].stops = @ + 1]

\* mutant of Release: the fade-out is timed by the release setting the voice
\* was created under
Release_usesBirth(e, v) ==
    [e EXCEPT !.voices[v].fades = @ + 1, !.voices[v].pending = @ + 1,
              !.voices[v].fadeRel = RelMs(e.voices[v].born),
              !.voices[v].delay = RelMs(e.voices[v].born) + TimerSlack]

\* mutant of Release: the deferred stop is set at the end of the release time,
\* without the extra 50 ms
Release_noSlack(e, v) ==
    [e EXCEPT !.voices[v].fades = @ + 1, !.voices[v].pending = @ + 1,
              !.voices[v].fadeRel = RelMs(e.release),
              !.voices[v].delay = RelMs(e.release)]

\* the fade-out and the deferred stop that noteOff and forceOff share:
\* cancelScheduledValues, setTargetAtTime, setTimeout(stopVoiceNow)
Release(e, v) ==
    [e EXCEPT !.voices[v].fades = @ + 1, !.voices[v].pending = @ + 1,
              !.voices[v].fadeRel = RelMs(e.release),
              !.voices[v].delay = RelMs(e.release) + TimerSlack]

\* mutant of noteOn: the voice already in the table is not stopped
noteOn_noStop(e, key) ==
    [e EXCEPT !.voices = Append(@, NewVoice(e, key)),
              !.active[key] = Len(e.voices) + 1]

noteOn(e, key) ==
    LET prev == e.active[key]
        e1   == IF prev # None THEN stopVoiceNow(e, prev) ELSE e
        id   == Len(e1.voices) + 1
    IN  [e1 EXCEPT !.voices = Append(@, NewVoice(e, key)),
                   !.active[key] = id]

\* mutant of noteOff: the entry is left in the table after the fade-out
noteOff_keepsEntry(e, key) ==
    LET v == e.active[key]
    IN  IF v = None THEN e
        ELSE IF e.sustain THEN [e EXCEPT !.sustainPool = @ \cup {key}]
        ELSE Release(e, v)

\* mutant of noteOff: the pedal is consulted before the table
noteOff_poolFirst(e, key) ==
    LET v == e.active[key]
    IN  IF e.sustain THEN [e EXCEPT !.sustainPool = @ \cup {key}]
        ELSE IF v = None THEN e
        ELSE [Release(e, v) EXCEPT !.active[key] = None]

\* mutant of noteOff: the pedal is not consulted
noteOff_ignoresPedal(e, key) ==
    LET v == e.active[key]
    IN  IF v = None THEN e
        ELSE [Release(e, v) EXCEPT !.active[key] = None]

noteOff(e, key) ==
    LET v == e.active[key]
    IN  IF v = None THEN e
        ELSE IF e.sustain THEN [e EXCEPT !.sustainPool = @ \cup {key}]
        ELSE [Release(e, v) EXCEPT !.active[key] = None]

\* mutant of forceOff: it honours the pedal, as noteOff does
forceOff_honoursPedal(e, key) ==
    LET v == e.active[key]
    IN  IF v = None THEN e
        ELSE IF e.sustain THEN [e EXCEPT !.sustainPool = @ \cup {key}]
        ELSE [Release(e, v) EXCEPT !.active[key] = None,
                                   !.sustainPool = @ \ {key},
                                   !.heldKeys = @ \ {key}]

\* mutant of forceOff: the key is left in heldKeys
forceOff_keepsHeld(e, key) ==
    LET v == e.active[key]
    IN  IF v = None THEN e
        ELSE [Release(e, v) EXCEPT !.active[key] = None,
                                   !.sustainPool = @ \ {key}]

forceOff(e, key) ==
    LET v == e.active[key]
    IN  IF v = None THEN e
        ELSE [Release(e, v) EXCEPT !.active[key] = None,
                                   !.sustainPool = @ \ {key},
                                   !.heldKeys = @ \ {key}]

\* for (const k of <snapshot>) if (want(k)) f(k): the calls on different
\* keys touch different entries, so the order of the snapshot is immaterial.
RECURSIVE ForceEach(_, _)
ForceEach(e, ks) ==
    IF ks = {} THEN e
    ELSE LET k == CHOOSE x \in ks : TRUE
         IN  ForceEach(forceOff(e, k), ks \ {k})

forceAllOff(e) ==
    [ForceEach(e, ActiveKeys(e)) EXCEPT !.sustainPool = {}]

\* mutant of pedalChange: the sweep does not spare the held keys
pedalChange_sweepsHeld(e, checked) ==
    LET prev == e.sustain
        e1   == [e EXCEPT !.sustain = checked]
    IN  IF prev /\ ~checked
        THEN [ForceEach(e1, ActiveKeys(e1)) EXCEPT !.sustainPool = {}]
        ELSE e1

\* mutant of pedalChange: the pedal going down pools the keys of the table
pedalChange_poolsOnDown(e, checked) ==
    LET prev == e.sustain
        e1   == [e EXCEPT !.sustain = checked]
    IN  IF prev /\ ~checked
        THEN [ForceEach(e1, { k \in ActiveKeys(e1) : k \notin e1.heldKeys })
                 EXCEPT !.sustainPool = {}]
        ELSE IF checked THEN [e1 EXCEPT !.sustainPool = ActiveKeys(e1)]
        ELSE e1

\* mutant of pedalChange: the pedal going up also empties heldKeys
pedalChange_clearsHeld(e, checked) ==
    LET prev == e.sustain
        e1   == [e EXCEPT !.sustain = checked]
    IN  IF prev /\ ~checked
        THEN [ForceEach(e1, { k \in ActiveKeys(e1) : k \notin e1.heldKeys })
                 EXCEPT !.sustainPool = {}, !.heldKeys = {}]
        ELSE e1

\* mutant of pedalChange: the sweep takes the keys of the pool, held again
\* or not
pedalChange_sweepsPool(e, checked) ==
    LET prev == e.sustain
        e1   == [e EXCEPT !.sustain = checked]
    IN  IF prev /\ ~checked
        THEN [ForceEach(e1, e1.sustainPool) EXCEPT !.sustainPool = {}]
        ELSE e1

\* Variant: pedal up fades the unheld voices but leaves the pool as it was.
pedalChange_keepsPool(e, checked) ==
    LET prev == e.sustain
        e1   == [e EXCEPT !.sustain = checked]
    IN  IF prev /\ ~checked
        THEN [ForceEach(e1, { k \in ActiveKeys(e1) : k \notin e1.heldKeys })
                 EXCEPT !.sustainPool = e1.sustainPool \cap e1.heldKeys]
        ELSE e1

\* sustainCb.onchange
pedalChange(e, checked) ==
    LET prev == e.sustain
        e1   == [e EXCEPT !.sustain = checked]
    IN  IF prev /\ ~checked
        THEN [ForceEach(e1, { k \in ActiveKeys(e1) : k \notin e1.heldKeys })
                 EXCEPT !.sustainPool = {}]
        ELSE e1

(* ------------------------------ history ------------------------------- *)

\* What the last listener was and what it met:
\*   op    - the listener
\*   key   - the pitch key it was about (None: not about one key)
\*   vs    - the voices it found in the table for the keys it looked at
\*   rel   - the voices it faded out
\*   pool  - sustainPool as it was when a pedal change began
\*   again - a note-off that directly follows a note-off of the same key
\*           which faded that key's voice
Event(op, key, vs, rel, pool, again) ==
    [op |-> op, key |-> key, vs |-> vs, rel |-> rel, pool |-> pool,
     again |-> again]

TableVoices(e, ks) == { e.active[k] : k \in ks \cap ActiveKeys(e) }

\* the voices that exist (created so far)
Created == 1..Len(voices)

Stopped(v) == voices[v].stops > 0

(* ------------------------------- Init --------------------------------- *)

\* no pointer on a key element, no character key down, Shift up:
\*   ptr   - the notes of the key elements that a pointer is down on
\*   kbd   - per character key: whether it is down, and the pitch key its
\*           keydown gave to noteOn (None: none)
\*   shift - whether Shift is down
NoInput == [ptr |-> {}, kbd |-> [c \in KeyChars |-> [down |-> FALSE, key |-> None]],
            shift |-> FALSE]

\* the page as loaded
Start ==
    /\ active = [k \in PitchKeys |-> None]
    /\ voices = << >>
    /\ heldKeys = {}
    /\ sustain = FALSE
    /\ sustainPool = {}
    /\ baseOct = InitBaseOct
    /\ release = InitRelease
    /\ orient = 0
    /\ last = Event("init", None, {}, {}, {}, FALSE)
    /\ plain = TRUE
    /\ pressed = {}
    /\ input = NoInput
    /\ clock = [now |-> 0, fadeAt |-> [v \in Voices |-> 0],
                rel |-> [v \in Voices |-> 0]]

\* no call of a note helper under test
NoProbe == [stage |-> "none", m |-> Null, name |-> << >>, midi |-> Null]

Init == Start /\ probe = NoProbe

(* ------------------------------ actions ------------------------------- *)

\* pointerdown / pointerenter with a button down, on a key element
Activate(note) ==
    /\ note \in BuiltNotes(baseOct)
    /\ Len(voices) < MaxVoices
    /\ LET midi == noteToMidi(note)
           key  == KeyOf(midi)
           e1   == [Eng EXCEPT !.heldKeys = @ \cup {key}]
       IN  /\ SetEng(noteOn(e1, key))
           /\ last' = Event("noteOn", key, TableVoices(Eng, {key}), {}, {},
                            FALSE)
    /\ UNCHANGED <<baseOct, orient, plain, elsewhere>>

\* mutant of Deactivate: the key is not taken out of heldKeys
Deactivate_keepsHeld(note) ==
    /\ note \in BuiltNotes(baseOct)
    /\ LET midi == noteToMidi(note)
           key  == KeyOf(midi)
           e2   == noteOff(Eng, key)
       IN  /\ SetEng(e2)
           /\ last' = Event("noteOff", key, TableVoices(Eng, {key}),
                            TableVoices(Eng, {key}) \ TableVoices(e2, {key}),
                            {},
                            last.op = "noteOff" /\ last.key = key
                                /\ last.rel # {})
    /\ UNCHANGED <<baseOct, orient, plain, elsewhere>>

\* pointerup / pointercancel / pointerleave on a key element
Deactivate(note) ==
    /\ note \in BuiltNotes(baseOct)
    /\ LET midi == noteToMidi(note)
           key  == KeyOf(midi)
           e1   == [Eng EXCEPT !.heldKeys = @ \ {key}]
           e2   == noteOff(e1, key)
       IN  /\ SetEng(e2)
           /\ last' = Event("noteOff", key, TableVoices(Eng, {key}),
                            TableVoices(Eng, {key}) \ TableVoices(e2, {key}),
                            {},
                            last.op = "noteOff" /\ last.key = key
                                /\ last.rel # {})
    /\ UNCHANGED <<baseOct, orient, plain, elsewhere>>

\* sustainCb.onchange: the checkbox was toggled
PedalChange ==
    /\ LET checked == ~sustain
           e2      == pedalChange(Eng, checked)
       IN  /\ SetEng(e2)
           /\ last' = Event(IF checked THEN "pedalDown" ELSE "pedalUp", None,
                            TableVoices(Eng, PitchKeys),
                            TableVoices(Eng, PitchKeys)
                                \ TableVoices(e2, PitchKeys),
                            sustainPool, FALSE)
    /\ plain' = FALSE
    /\ UNCHANGED <<baseOct, orient, elsewhere>>

ForceAllOffStep(op) ==
    /\ SetEng(forceAllOff(Eng))
    /\ last' = Event(op, None, TableVoices(Eng, PitchKeys),
                     TableVoices(Eng, PitchKeys), {}, FALSE)
    /\ plain' = FALSE
    /\ UNCHANGED <<baseOct, elsewhere>>

\* window pointerup / touchend / touchcancel, visibilitychange to hidden,
\* beforeunload
ForceSilence ==
    /\ ForceAllOffStep("forceSilence")
    /\ UNCHANGED orient

\* setInterval(() => forceSilence(), 3000)
FailsafeInterval ==
    /\ ForceAllOffStep("failsafe")
    /\ UNCHANGED orient

\* orientationchange: setTimeout(forceSilence, 200)
OrientationChange ==
    /\ orient < MaxOrient
    /\ orient' = orient + 1
    /\ last' = Event("orientation", None, {}, {}, {}, FALSE)
    /\ plain' = FALSE
    /\ UNCHANGED <<active, voices, heldKeys, sustain, sustainPool, baseOct,
                 release, elsewhere>>

\* the orientationchange timeout fires
OrientTimer ==
    /\ orient > 0
    /\ orient' = orient - 1
    /\ ForceAllOffStep("orientTimer")

\* mutant of ReleaseTimer: the callback looks the key up in the table when
\* it fires instead of keeping the voice it was set for
ReleaseTimer_stopsOccupant(v) ==
    /\ v \in Created
    /\ voices[v].pending > 0
    /\ LET cur == active[voices[v].key]
           u   == IF cur # None THEN cur ELSE v
       IN  SetEng([stopVoiceNow(Eng, u) EXCEPT !.voices[v].pending = @ - 1])
    /\ last' = Event("timer", None, {}, {}, {}, FALSE)
    /\ UNCHANGED <<baseOct, orient, plain, elsewhere>>

\* a timeout set by noteOff / forceOff fires: stopVoiceNow(v)
ReleaseTimer(v) ==
    /\ v \in Created
    /\ voices[v].pending > 0
    /\ SetEng([stopVoiceNow(Eng, v) EXCEPT !.voices[v].pending = @ - 1])
    /\ last' = Event("timer", None, {}, {}, {}, FALSE)
    /\ UNCHANGED <<baseOct, orient, plain, elsewhere>>

\* baseOct.oninput: state.baseOct = +baseOct.value; buildPiano()
SetBaseOct(b) ==
    /\ b # baseOct
    /\ baseOct' = b
    /\ last' = Event("baseOct", None, {}, {}, {}, FALSE)
    /\ plain' = FALSE
    /\ UNCHANGED <<active, voices, heldKeys, sustain, sustainPool, orient,
                 release, elsewhere>>

Next ==
    \/ \E note \in PointerNotes : Activate(note)
    \/ \E note \in PointerNotes : Deactivate(note)
    \/ PedalChange
    \/ ForceSilence
    \/ FailsafeInterval
    \/ OrientationChange
    \/ OrientTimer
    \/ \E v \in Voices : ReleaseTimer(v)
    \/ \E b \in BaseOctInputs : SetBaseOct(b)

Spec == Init /\ [][Next]_vars

\* The timers of the event loop fire: the 3 s interval keeps coming, and a
\* timeout that was set is run.
FairSpec ==
    /\ Spec
    /\ WF_vars(FailsafeInterval)
    /\ WF_vars(OrientTimer)
    /\ \A v \in Voices : WF_vars(ReleaseTimer(v))

(* ------------------------ the release control ------------------------- *)

\* the values the release slider is moved to: the default and one below the
\* floor of Math.max(0.02, ...)
ReleaseInputs == {10, InitRelease}

\* rel.oninput: state.release = +rel.value
SetRelease(r) ==
    /\ r # release
    /\ release' = r
    /\ last' = Event("release", None, {}, {}, {}, FALSE)
    /\ plain' = FALSE
    /\ UNCHANGED <<active, voices, heldKeys, sustain, sustainPool, baseOct,
                   orient, elsewhere>>

\* The release control with the listeners that create and fade voices.  The
\* 3 s interval and the orientationchange timeout run the forceSilence that
\* ForceSilence runs; they are in Next.
ParamNext ==
    \/ \E note \in PointerNotes : Activate(note)
    \/ \E note \in PointerNotes : Deactivate(note)
    \/ PedalChange
    \/ ForceSilence
    \/ \E v \in Voices : ReleaseTimer(v)
    \/ \E b \in BaseOctInputs : SetBaseOct(b)
    \/ \E r \in ReleaseInputs : SetRelease(r)

ParamSpec == Init /\ [][ParamNext]_vars

(* ------------------- the pointers and the computer keys ----------------- *)

\* The listeners with the physical input that drives them: a pointer on a
\* key element and the character keys are separate channels that can hold
\* the same pitch key.

\* the pitch keys that some channel holds down
Asserted(in) ==
    { KeyOf(noteToMidi(n)) : n \in in.ptr }
    \cup { in.kbd[c].key : c \in { d \in KeyChars : in.kbd[d].down
                                                    /\ in.kbd[d].key # None } }

\* document.querySelector(`[data-note="${note}"]`) finds a key element
HasElement(note) == note \in BuiltNotes(baseOct)

\* pointerdown, or pointerenter with a button down: activate
InputPointerDown(note) ==
    /\ HasElement(note)
    /\ note \notin input.ptr
    /\ Len(voices) < MaxVoices
    /\ LET key == KeyOf(noteToMidi(note))
           e1  == [Eng EXCEPT !.heldKeys = @ \cup {key}]
       IN  /\ SetEng(noteOn(e1, key))
           /\ last' = Event("noteOn", key, TableVoices(Eng, {key}), {}, {},
                            FALSE)
    /\ input' = [input EXCEPT !.ptr = @ \cup {note}]
    /\ UNCHANGED <<baseOct, orient, plain, pressed, probe, clock>>

\* pointercancel, pointerleave with the button down, or pointerup (whose
\* window listener is ForceSilence): deactivate
InputPointerEnd(note) ==
    /\ HasElement(note)
    /\ note \in input.ptr
    /\ LET key == KeyOf(noteToMidi(note))
           e1  == [Eng EXCEPT !.heldKeys = @ \ {key}]
           e2  == noteOff(e1, key)
       IN  /\ SetEng(e2)
           /\ last' = Event("noteOff", key, TableVoices(Eng, {key}),
                            TableVoices(Eng, {key}) \ TableVoices(e2, {key}),
                            {}, FALSE)
    /\ input' = [input EXCEPT !.ptr = @ \ {note}]
    /\ UNCHANGED <<baseOct, orient, plain, pressed, probe, clock>>

\* keydown of a character of KEY_MAP that was up (a repeat returns at once)
KeyDown(c) ==
    /\ KeyMapHas(c)
    /\ ~input.kbd[c].down
    /\ LET midi == KeyMidi(baseOct, input.shift, c)
           key  == KeyOf(midi)
           e1   == [Eng EXCEPT !.heldKeys = @ \cup {key}]
       IN  IF HasElement(midiToNote(midi))
           THEN /\ Len(voices) < MaxVoices
                /\ SetEng(noteOn(e1, key))
                /\ input' = [input EXCEPT !.kbd[c] = [down |-> TRUE,
                                                       key |-> key]]
                /\ last' = Event("keydown", key, TableVoices(Eng, {key}),
                                 {}, {}, FALSE)
           ELSE /\ SetEng(Eng)
                /\ input' = [input EXCEPT !.kbd[c] = [down |-> TRUE,
                                                       key |-> None]]
                /\ last' = Event("keydown", None, {}, {}, {}, FALSE)
    /\ UNCHANGED <<baseOct, orient, plain, pressed, probe, clock>>

\* keyup of a character of KEY_MAP
KeyUp(c) ==
    /\ KeyMapHas(c)
    /\ input.kbd[c].down
    /\ LET midi == KeyMidi(baseOct, input.shift, c)
           key  == KeyOf(midi)
           e1   == [Eng EXCEPT !.heldKeys = @ \ {key}]
           e2   == noteOff(e1, key)
       IN  /\ SetEng(e2)
           /\ last' = Event("keyup", key, TableVoices(Eng, {key}),
                            TableVoices(Eng, {key}) \ TableVoices(e2, {key}),
                            {}, FALSE)
    /\ input' = [input EXCEPT !.kbd[c] = [down |-> FALSE, key |-> None]]
    /\ UNCHANGED <<baseOct, orient, plain, pressed, probe, clock>>

\* keydown / keyup of Shift: not in KEY_MAP, the listeners return
ShiftChange ==
    /\ input' = [input EXCEPT !.shift = ~@]
    /\ last' = Event("shift", None, {}, {}, {}, FALSE)
    /\ UNCHANGED <<active, voices, heldKeys, sustain, sustainPool, baseOct,
                   release, orient, plain, pressed, probe, clock>>

\* keydown of Z: state.baseOct = Math.max(2, state.baseOct - 1), then
\* buildPiano(), which replaces the key elements: no pointer is down on a
\* new one
KeyZ ==
    /\ baseOct' = (IF baseOct - 1 > MinBaseOct THEN baseOct - 1
                   ELSE MinBaseOct)
    /\ input' = [input EXCEPT !.ptr = {}]
    /\ last' = Event("baseOct", None, {}, {}, {}, FALSE)
    /\ UNCHANGED <<active, voices, heldKeys, sustain, sustainPool, release,
                   orient, plain, pressed, probe, clock>>

\* keydown of X: state.baseOct = Math.min(6, state.baseOct + 1), then
\* buildPiano()
KeyX ==
    /\ baseOct' = (IF baseOct + 1 < MaxBaseOct THEN baseOct + 1
                   ELSE MaxBaseOct)
    /\ input' = [input EXCEPT !.ptr = {}]
    /\ last' = Event("baseOct", None, {}, {}, {}, FALSE)
    /\ UNCHANGED <<active, voices, heldKeys, sustain, sustainPool, release,
                   orient, plain, pressed, probe, clock>>

InputNext ==
    \/ \E note \in PointerNotes : InputPointerDown(note)
    \/ \E note \in PointerNotes : InputPointerEnd(note)
    \/ \E c \in KeyChars : KeyDown(c)
    \/ \E c \in KeyChars : KeyUp(c)
    \/ ShiftChange
    \/ KeyZ
    \/ KeyX
    \/ PedalChange
    \/ ForceSilence
    \/ \E v \in Voices : ReleaseTimer(v)

InputSpec == Init /\ [][InputNext]_vars

(* ------------------------------ the clock ------------------------------ *)

\* The listeners that create and fade voices, with the time at which they
\* run.  Time passes in steps of TickStep ms up to MaxTime ms; a timeout runs
\* no sooner than its delay after it was set.
TickStep == 50
MaxTime == 200

\* the clock after a listener that leaves the engine as e2: the voices it
\* faded out are stamped with the time and the release setting
Stamped(e2) ==
    LET faded == { v \in Created : e2.voices[v].fades > voices[v].fades }
    IN  [clock EXCEPT
           !.fadeAt = [v \in Voices |-> IF v \in faded THEN clock.now ELSE @[v]],
           !.rel = [v \in Voices |-> IF v \in faded THEN release ELSE @[v]]]

TimedStep(e2, ev) ==
    /\ SetEng(e2)
    /\ last' = ev
    /\ clock' = Stamped(e2)
    /\ UNCHANGED <<baseOct, orient, plain, pressed, probe, input>>

\* pointerdown / pointerenter with a button down
TimedActivate(note) ==
    /\ note \in BuiltNotes(baseOct)
    /\ Len(voices) < MaxVoices
    /\ LET key == KeyOf(noteToMidi(note))
           e1  == [Eng EXCEPT !.heldKeys = @ \cup {key}]
       IN  TimedStep(noteOn(e1, key),
                     Event("noteOn", key, TableVoices(Eng, {key}), {}, {},
                           FALSE))

\* pointerup / pointercancel / pointerleave
TimedDeactivate(note) ==
    /\ note \in BuiltNotes(baseOct)
    /\ LET key == KeyOf(noteToMidi(note))
           e1  == [Eng EXCEPT !.heldKeys = @ \ {key}]
           e2  == noteOff(e1, key)
       IN  TimedStep(e2,
                     Event("noteOff", key, TableVoices(Eng, {key}),
                           TableVoices(Eng, {key}) \ TableVoices(e2, {key}),
                           {}, FALSE))

\* sustainCb.onchange
TimedPedalChange ==
    LET checked == ~sustain
        e2      == pedalChange(Eng, checked)
    IN  TimedStep(e2,
                  Event(IF checked THEN "pedalDown" ELSE "pedalUp", None,
                        TableVoices(Eng, PitchKeys),
                        TableVoices(Eng, PitchKeys)
                            \ TableVoices(e2, PitchKeys),
                        sustainPool, FALSE))

\* forceSilence: the safety listeners and the 3 s interval
TimedForceSilence ==
    TimedStep(forceAllOff(Eng),
              Event("forceSilence", None, TableVoices(Eng, PitchKeys),
                    TableVoices(Eng, PitchKeys), {}, FALSE))

\* the timeout that noteOff / forceOff set for v runs: its delay has passed
TimedReleaseTimer(v) ==
    /\ v \in Created
    /\ voices[v].pending > 0
    /\ clock.now >= clock.fadeAt[v] + voices[v].delay
    /\ TimedStep([stopVoiceNow(Eng, v) EXCEPT !.voices[v].pending = @ - 1],
                 Event("timer", None, {v}, {}, {}, FALSE))

\* time passes
Tick ==
    /\ clock.now + TickStep <= MaxTime
    /\ clock' = [clock EXCEPT !.now = @ + TickStep]
    /\ UNCHANGED <<active, voices, heldKeys, sustain, sustainPool, baseOct,
                   release, orient, last, plain, pressed, probe, input>>

TimedNext ==
    \/ \E note \in PointerNotes : TimedActivate(note)
    \/ \E note \in PointerNotes : TimedDeactivate(note)
    \/ TimedPedalChange
    \/ TimedForceSilence
    \/ \E v \in Voices : TimedReleaseTimer(v)
    \/ \E r \in ReleaseInputs : SetRelease(r)
    \/ Tick

TimedSpec == Init /\ [][TimedNext]_vars

(* ======================================================================= *)
(*  src/piano.js: the earlier engine.  It has the table, the pedal flag    *)
(*  and the pool, no heldKeys and no forceOff; its key elements keep a     *)
(*  Set `pressed`, and its safety listeners go through noteOff.            *)
(* ======================================================================= *)

\* noteOn of src/piano.js: the new voice is put in the table; a voice that
\* is there already is not looked at
piano_noteOn(e, key) ==
    [e EXCEPT !.voices = Append(@, NewVoice(e, key)),
              !.active[key] = Len(e.voices) + 1]

\* noteOff of src/piano.js
piano_noteOff(e, key) ==
    LET v == e.active[key]
    IN  IF v = None THEN e
        ELSE IF e.sustain THEN [e EXCEPT !.sustainPool = @ \cup {key}]
        ELSE [e EXCEPT !.voices[v].fades = @ + 1,
                       !.voices[v].pending = @ + 1,
                       !.voices[v].fadeRel = RelMs(e.release),
                       !.voices[v].delay = RelMs(e.release) + TimerSlack,
                       !.active[key] = None]

\* for (const k of <keys>) noteOff(k): a call touches its own key only, so
\* the order of the iteration is immaterial.
RECURSIVE NoteOffEach(_, _)
NoteOffEach(e, ks) ==
    IF ks = {} THEN e
    ELSE LET k == CHOOSE x \in ks : TRUE
         IN  NoteOffEach(piano_noteOff(e, k), ks \ {k})

piano_allNotesOff(e) ==
    [NoteOffEach(e, ActiveKeys(e)) EXCEPT !.sustainPool = {}]

\* sustainCb.onchange of src/piano.js
piano_pedalChange(e, checked) ==
    LET e1 == [e EXCEPT !.sustain = checked]
    IN  IF ~checked
        THEN [NoteOffEach(e1, e1.sustainPool) EXCEPT !.sustainPool = {}]
        ELSE e1

\* the keys of the key elements in `pressed`
PressedKeys(ps) == { KeyOf(noteToMidi(n)) : n \in ps }

\* pointerdown / pointerenter with a button down: pressed.add, activateKey
PianoActivate(note) ==
    /\ note \in BuiltNotes(baseOct)
    /\ Len(voices) < MaxVoices
    /\ LET key == KeyOf(noteToMidi(note))
       IN  /\ SetEng(piano_noteOn(Eng, key))
           /\ last' = Event("noteOn", key, TableVoices(Eng, {key}), {}, {},
                            FALSE)
    /\ pressed' = pressed \cup {note}
    /\ UNCHANGED <<baseOct, orient, plain, probe, input, clock>>

\* pointerup / pointercancel / pointerleave: end, for a pressed element
PianoEnd(note) ==
    /\ note \in BuiltNotes(baseOct)
    /\ note \in pressed
    /\ LET key == KeyOf(noteToMidi(note))
           e2  == piano_noteOff(Eng, key)
       IN  /\ SetEng(e2)
           /\ last' = Event("noteOff", key, TableVoices(Eng, {key}),
                            TableVoices(Eng, {key}) \ TableVoices(e2, {key}),
                            {}, FALSE)
    /\ pressed' = pressed \ {note}
    /\ UNCHANGED <<baseOct, orient, plain, probe, input, clock>>

PianoPedalChange ==
    /\ LET checked == ~sustain
           e2      == piano_pedalChange(Eng, checked)
       IN  /\ SetEng(e2)
           /\ last' = Event(IF checked THEN "pedalDown" ELSE "pedalUp", None,
                            TableVoices(Eng, PitchKeys),
                            TableVoices(Eng, PitchKeys)
                                \ TableVoices(e2, PitchKeys),
                            sustainPool, FALSE)
    /\ UNCHANGED <<baseOct, orient, plain, elsewhere>>

\* what a safety listener does with the keys ks it goes through
PianoSweepStep(op, ks, e2) ==
    /\ SetEng(e2)
    /\ last' = Event(op, None, TableVoices(Eng, ks),
                     TableVoices(Eng, ks) \ TableVoices(e2, ks),
                     sustainPool, FALSE)
    /\ UNCHANGED <<baseOct, plain, elsewhere>>

\* window pointerup / touchend / touchcancel, visibilitychange to hidden:
\* for (const k of active.keys()) noteOff(k)
PianoSafety ==
    /\ PianoSweepStep("safety", PitchKeys, NoteOffEach(Eng, ActiveKeys(Eng)))
    /\ UNCHANGED orient

\* beforeunload: allNotesOff()
PianoUnload ==
    /\ PianoSweepStep("unload", PitchKeys, piano_allNotesOff(Eng))
    /\ UNCHANGED orient

\* the 3 s interval: noteOff for the table's voices whose gain reads above
\* 0.0001 (aud: the keys of those voices; the gain is 0 at the instant of
\* the note-on and ramps up from there)
PianoInterval(aud) ==
    /\ aud \subseteq ActiveKeys(Eng)
    /\ PianoSweepStep("interval", aud, NoteOffEach(Eng, aud))
    /\ UNCHANGED orient

PianoOrientationChange ==
    /\ orient < MaxOrient
    /\ orient' = orient + 1
    /\ last' = Event("orientation", None, {}, {}, {}, FALSE)
    /\ UNCHANGED <<active, voices, heldKeys, sustain, sustainPool, baseOct,
                   release, plain, elsewhere>>

PianoOrientTimer ==
    /\ orient > 0
    /\ orient' = orient - 1
    /\ PianoSweepStep("orientTimer", PitchKeys,
                      NoteOffEach(Eng, ActiveKeys(Eng)))

\* a timeout set by noteOff fires: v.osc.stop()
PianoReleaseTimer(v) ==
    /\ v \in Created
    /\ voices[v].pending > 0
    /\ SetEng([Eng EXCEPT !.voices[v].stops = @ + 1,
                          !.voices[v].pending = @ - 1])
    /\ last' = Event("timer", None, {}, {}, {}, FALSE)
    /\ UNCHANGED <<baseOct, orient, plain, elsewhere>>

\* baseOct.oninput: buildPiano() makes new key elements and a new `pressed`
PianoSetBaseOct(b) ==
    /\ b # baseOct
    /\ baseOct' = b
    /\ pressed' = {}
    /\ last' = Event("baseOct", None, {}, {}, {}, FALSE)
    /\ UNCHANGED <<active, voices, heldKeys, sustain, sustainPool, orient,
                   release, plain, probe, input, clock>>

PianoNext ==
    \/ \E note \in PointerNotes : PianoActivate(note)
    \/ \E note \in PointerNotes : PianoEnd(note)
    \/ PianoPedalChange
    \/ PianoSafety
    \/ PianoUnload
    \/ \E aud \in SUBSET PitchKeys : PianoInterval(aud)
    \/ PianoOrientationChange
    \/ PianoOrientTimer
    \/ \E v \in Voices : PianoReleaseTimer(v)
    \/ \E b \in BaseOctInputs : PianoSetBaseOct(b)

PianoSpec == Init /\ [][PianoNext]_vars

(* ======================================================================= *)
(*  The note helpers noteToMidi and midiToNote, applied to drawn arguments *)
(* ======================================================================= *)

\* the arguments of midiToNote: the MIDI numbers of octaves 0 .. 9
MidiInputs == 12..131

\* the arguments of noteToMidi that do not come from midiToNote: names the
\* pattern takes (naturals, sharps, flats) and names it does not take
NameInputs ==
    { <<"A","4">>, <<"C","4">>, <<"D","b","4">>, <<"C","b","0">>,
      <<"B","#","9">>, <<"C","1","0">>, <<"C","#","1","0">>, <<"H","4">>,
      <<"c","4">>, <<"C">>, <<"4">>, <<"4","C">>, <<"C","#">>,
      <<"C","x","4">>, <<"C","4","#">>, <<"#","4">>, << >> }

NoteInit ==
    /\ Start
    /\ probe \in { [stage |-> "midi", m |-> m, name |-> << >>, midi |-> Null]
                      : m \in MidiInputs }
               \cup { [stage |-> "name", m |-> Null, name |-> n, midi |-> Null]
                      : n \in NameInputs }

\* name = midiToNote(m)
ApplyMidiToNote ==
    /\ probe.stage = "midi"
    /\ probe' = [probe EXCEPT !.name = midiToNote(probe.m), !.stage = "name"]
    /\ UNCHANGED <<active, voices, heldKeys, sustain, sustainPool, baseOct,
                   release, orient, last, plain, pressed, input, clock>>

\* midi = noteToMidi(name)
ApplyNoteToMidi ==
    /\ probe.stage = "name"
    /\ probe' = [probe EXCEPT !.midi = noteToMidi(probe.name),
                              !.stage = "done"]
    /\ UNCHANGED <<active, voices, heldKeys, sustain, sustainPool, baseOct,
                   release, orient, last, plain, pressed, input, clock>>

NoteNext == ApplyMidiToNote \/ ApplyNoteToMidi

NoteSpec == NoteInit /\ [][NoteNext]_vars

(* ======================================================================= *)
(*                               Claims                                    *)
(* ======================================================================= *)

KeyOfNote(note) == KeyOf(noteToMidi(note))

\* The predicates on voices, over a given table and voice list (so that
\* they can be read in the state after a step as well).

\* the voices of key k whose resource is started and not stopped
LiveIn(vl, k) ==
    { v \in 1..Len(vl) : vl[v].key = k /\ vl[v].stops = 0 }

\* the voices of key k that are live and not fading out
SoundingIn(vl, k) == { v \in LiveIn(vl, k) : vl[v].fades = 0 }

\* in the table, no fade-out issued, resource not stopped
UnreleasedIn(act, vl, v) ==
    /\ v \in 1..Len(vl)
    /\ act[vl[v].key] = v
    /\ vl[v].fades = 0
    /\ vl[v].pending = 0
    /\ vl[v].stops = 0

\* faded out exactly once, with exactly one deferred stop outstanding
FadeScheduledIn(vl, v) ==
    /\ v \in 1..Len(vl)
    /\ vl[v].fades = 1
    /\ vl[v].pending = 1
    /\ vl[v].stops = 0

\* held by the pedal: in the table untouched, key in the pool and not held
SustainedIn(e, v) ==
    /\ e.sustain
    /\ UnreleasedIn(e.active, e.voices, v)
    /\ e.voices[v].key \in e.sustainPool
    /\ e.voices[v].key \notin e.heldKeys

LiveOf(k) == LiveIn(voices, k)

InTableUnreleased(v) == UnreleasedIn(active, voices, v)

FadeScheduled(v) == FadeScheduledIn(voices, v)

ForceOps == {"forceSilence", "failsafe", "orientTimer"}

C2_AtMostOneUndisposedVoice ==
    plain => \A k \in PitchKeys : Cardinality(LiveOf(k)) <= 1

\* key k has a voice in the table that is untouched
KeySoundingIn(act, vl, k) ==
    act[k] # None /\ UnreleasedIn(act, vl, act[k])

\* a note-off with the pedal down leaves the key's voice held by the pedal
C3_NoteOffSustains ==
    \A note \in PointerNotes :
       LET v == active[KeyOfNote(note)]
       IN  (Deactivate(note) /\ sustain /\ v # None) => SustainedIn(Eng', v)

\* the pedal going up releases the voices of the pool's keys that are not
\* held again
C3_PedalUpReleases ==
    (PedalChange /\ sustain) =>
        \A k \in sustainPool \ heldKeys :
           /\ active'[k] = None
           /\ FadeScheduledIn(voices', active[k])

\* C3 as stated: after note-on and note-off with the pedal down (the key is
\* in the pool), the key keeps an unfaded, unstopped voice in the table
\* over every step that is not the pedal going up, and the pedal going up
\* releases it.
C3_Original ==
    [][/\ C3_NoteOffSustains
       /\ \A k \in PitchKeys :
            (sustain /\ k \in sustainPool /\ sustain')
            => KeySoundingIn(active', voices', k)
       /\ C3_PedalUpReleases]_vars

\* C3 amended: the key keeps an unfaded, unstopped voice in the table (the
\* same voice, unless the key is pressed again) over every step other than
\* the pedal going up and a force-all-off (the safety listeners and the 3 s
\* interval); the pedal going up releases it.
C3_SustainedUntilPedalUpOrForce ==
    [][/\ C3_NoteOffSustains
       /\ \A k \in PitchKeys :
            (sustain /\ k \in sustainPool /\ sustain'
               /\ last'.op \notin ForceOps)
            => /\ k \in sustainPool'
               /\ KeySoundingIn(active', voices', k)
               /\ ~(last'.op = "noteOn" /\ last'.key = k)
                    => active'[k] = active[k]
       /\ C3_PedalUpReleases]_vars

\* C3 witness: the pedal has just gone up and faded a voice whose key was
\* in the pool.
C3_Witness ==
    /\ last.op = "pedalUp"
    /\ \E v \in last.rel : voices[v].key \in last.pool /\ FadeScheduled(v)

\* C4: the pedal going up leaves every held key as it is: the key stays
\* held, its table entry is the same voice, and nothing is done to that
\* voice.
C4_PedalUpSparesHeld ==
    [][(PedalChange /\ sustain) =>
         \A k \in heldKeys :
            /\ k \in heldKeys'
            /\ active'[k] = active[k]
            /\ active[k] # None =>
                 /\ voices'[active[k]] = voices[active[k]]
                 /\ UnreleasedIn(active', voices', active[k])]_vars

\* C4 witness: the pedal has just gone up while a key that was in the pool
\* (released under the pedal, then pressed again) was held, and that key's
\* voice is still in the table, unfaded.
C4_Witness ==
    /\ last.op = "pedalUp"
    /\ \E k \in last.pool \cap heldKeys :
          active[k] # None /\ InTableUnreleased(active[k])

\* C5: after a force-all-off, whatever the pedal, the table is empty, the
\* pool is empty, and every voice that was in the table has one more
\* fade-out and one more deferred stop.
C5_ForceAllOffEmpties ==
    [][(ForceSilence \/ FailsafeInterval \/ OrientTimer) =>
         /\ \A k \in PitchKeys : active'[k] = None
         /\ sustainPool' = {}
         /\ \A v \in TableVoices(Eng, PitchKeys) :
               /\ voices'[v].fades = voices[v].fades + 1
               /\ voices'[v].pending = voices[v].pending + 1
               /\ FadeScheduled(v)']_vars

\* C5 witness: a force-all-off has just run with the pedal down and found
\* voices in the table; all of them are fading and the table is empty.
C5_Witness ==
    /\ last.op \in ForceOps
    /\ sustain
    /\ last.vs # {}
    /\ \A v \in last.vs : FadeScheduled(v)
    /\ ActiveKeys(Eng) = {}

\* C6: with the interval and the timeouts firing, every voice that is ever
\* created (and so put in the table) is eventually out of the table with
\* its resource stopped, whatever input follows and whatever the pedal.
C6_EventualSilence ==
    \A v \in Voices :
       [](v \in Created =>
            <>(v \in Created /\ Stopped(v) /\ active[voices[v].key] # v))

\* C6 witness: the 3 s interval has just faded a voice, out of the table,
\* with the pedal down, without any note-off or pedal-up for it.
C6_Witness ==
    /\ last.op = "failsafe"
    /\ sustain
    /\ \E v \in last.rel : FadeScheduled(v) /\ active[voices[v].key] = None

\* C7: stopVoiceNow runs at most once on a voice: a voice has at most one
\* fade-out and timer, and its stops done plus its timers outstanding never
\* exceed one (so never an immediate stop and a timer, never two timers).
C7_StoppedAtMostOnce ==
    \A v \in Created :
       /\ voices[v].stops <= 1
       /\ voices[v].fades <= 1
       /\ voices[v].stops + voices[v].pending <= 1

\* C7 witness: one voice was stopped at once on replacement (never faded)
\* and another by its release timer.
C7_Witness ==
    /\ \E v \in Created :
          voices[v].stops = 1 /\ voices[v].fades = 0
    /\ \E v \in Created :
          voices[v].stops = 1 /\ voices[v].fades = 1 /\ voices[v].pending = 0

\* C8: with the pedal up, a note-off of a key with a voice in the table
\* fades that voice once and sets one timer; a note-off of the same key
\* directly after it changes nothing: table, pool, voices and timers stay,
\* and the voice still has one fade-out and one timer.
C8_NoteOffIdempotent ==
    [][\A note \in PointerNotes :
         LET k == KeyOfNote(note)
             v == active[k]
         IN  /\ (Deactivate(note) /\ ~sustain /\ v # None) =>
                   /\ active'[k] = None
                   /\ FadeScheduledIn(voices', v)
             /\ ( /\ Deactivate(note)
                  /\ ~sustain
                  /\ last.op = "noteOff" /\ last.key = k /\ last.rel # {} )
                =>
                   /\ UNCHANGED <<active, sustainPool, voices, orient>>
                   /\ \A u \in last.rel : FadeScheduledIn(voices', u)]_vars

\* C8 witness: a note-off with the pedal up has just run directly after a
\* note-off of the same key that faded the key's voice; it found no voice,
\* and that voice has one fade-out and one timer.
C8_Witness ==
    /\ last.op = "noteOff"
    /\ last.again
    /\ ~sustain
    /\ last.vs = {}
    /\ \E v \in Created : voices[v].key = last.key /\ FadeScheduled(v)

\* C9: a pointer press on a key element whose note name has no pitch
\* (noteToMidi gives null) has no effect: no voice is created or started,
\* and the table and the held set are unchanged.
C9_InvalidPitchRejected ==
    [][\A note \in PointerNotes :
         (Activate(note) /\ noteToMidi(note) = Null) =>
             UNCHANGED <<active, voices, heldKeys>>]_vars

\* C10: a note-off of a key without a voice in the table, pedal up or down,
\* leaves the table, the pool, the voices (fade-outs, stops) and the timers
\* as they were.
C10_NoteOffWithoutVoiceIsNoOp ==
    [][\A note \in PointerNotes :
         (Deactivate(note) /\ active[KeyOfNote(note)] = None) =>
             UNCHANGED <<active, sustainPool, voices, orient, sustain>>]_vars

\* C10 witness: a note-off has just run with the pedal down for a key that
\* had no voice, and the key is not in the pool.
C10_Witness ==
    /\ last.op = "noteOff"
    /\ last.vs = {}
    /\ sustain
    /\ active[last.key] = None
    /\ last.key \notin sustainPool

\* C11: a release timer stops the voice it was set for and nothing else:
\* that voice is no longer in the table when the timer fires, the table is
\* unchanged, every other voice is as it was, and the voice that occupies
\* the key's slot (put there by a note-on after the release) stays started,
\* unfaded and in the table; no voice in the table ever has a timer pending.
C11_StaleTimerSparesOccupant ==
    [][/\ \A v \in Created : voices[v].pending > 0 => active[voices[v].key] # v
       /\ \A v \in Voices :
            ReleaseTimer(v) =>
               /\ active' = active
               /\ voices'[v].stops = voices[v].stops + 1
               /\ \A u \in Created \ {v} : voices'[u] = voices[u]
               /\ \A k \in PitchKeys :
                     KeySoundingIn(active, voices, k)
                        => KeySoundingIn(active', voices', k)]_vars

\* C11 witness: a release timer has just fired and stopped the voice it was
\* set for, while a younger voice of the same key is in the table, started
\* and unfaded.
C11_Witness ==
    /\ last.op = "timer"
    /\ \E v \in Created :
          /\ voices[v].stops = 1 /\ voices[v].fades = 1
          /\ voices[v].pending = 0
          /\ active[voices[v].key] > v
          /\ InTableUnreleased(active[voices[v].key])

\* C12: no key is in the pool and held at once: a key in sustainPool is not
\* in heldKeys.
C12_PoolDisjointFromHeld == sustainPool \cap heldKeys = {}

\* C13: in src/piano.js, when a safety listener (window pointerup, touchend,
\* touchcancel, visibilitychange to hidden), the unload listener or the 3 s
\* interval runs with the pedal down, every voice it went through is out of
\* the table and fading afterwards, and no key of a pressed element has
\* been added to the pool.
C13_PianoFailsafeBypassesSustain ==
    [][( /\ sustain
         /\ \/ PianoSafety
            \/ PianoUnload
            \/ \E aud \in SUBSET PitchKeys : PianoInterval(aud) )
       => /\ \A v \in last'.vs :
                /\ active'[voices[v].key] = None
                /\ voices'[v].fades > 0
          /\ PressedKeys(pressed) \cap sustainPool' \subseteq sustainPool]_vars

\* C14: in src/piano.js, a note-on for a key that has a voice in the table
\* leaves that voice stopped, and every voice ever created is in the table,
\* or stopped, or has its stop on a timer.
C14_PianoNoOrphanVoice ==
    /\ last.op = "noteOn" => \A v \in last.vs : Stopped(v)
    /\ \A v \in Created :
          \/ active[voices[v].key] = v
          \/ voices[v].stops > 0
          \/ voices[v].pending > 0

C16_NoteNameRoundTrip ==
    /\ (probe.stage # "midi" /\ probe.m = 60) => probe.name = <<"C","4">>
    /\ probe.stage = "done" =>
          /\ probe.m \in MidiInputs => probe.midi = probe.m
          /\ probe.name = <<"A","4">> => probe.midi = 69
          /\ probe.name \in { <<"C","1","0">>, <<"C","#","1","0">>,
                              <<"H","4">>, <<"c","4">>, <<"C">>, <<"4">>,
                              <<"4","C">>, <<"C","#">>, <<"C","x","4">>,
                              <<"C","4","#">>, <<"#","4">>, << >> }
                => probe.midi = Null

\* C16 witness: the round trip of a sharp in the top octave has been made,
\* and came back to its MIDI number.
C16_Witness ==
    /\ probe.stage = "done"
    /\ probe.m = 130
    /\ probe.name = <<"A","#","9">>
    /\ probe.midi = 130

\* C17: the pedal going up releases exactly the voices of the keys that are
\* in the pool and not held: each such key has a voice, which leaves the
\* table with a fade-out and a timer; every other key keeps its table entry
\* and its voice untouched; no voice of a key outside the pool is changed;
\* and the pool is empty afterwards.
C17_PedalUpReleasesPoolNotHeld ==
    [][(PedalChange /\ sustain) =>
         /\ sustainPool' = {}
         /\ \A k \in sustainPool \ heldKeys :
               /\ active[k] # None
               /\ active'[k] = None
               /\ FadeScheduledIn(voices', active[k])
         /\ \A k \in PitchKeys \ (sustainPool \ heldKeys) :
               /\ active'[k] = active[k]
               /\ active[k] # None => voices'[active[k]] = voices[active[k]]
         /\ \A v \in Created :
               voices[v].key \notin sustainPool => voices'[v] = voices[v]]_vars

\* C17 witness: the pedal has just gone up, faded the voice of a key of the
\* pool, and left the voice of a held key that was not in the pool in the
\* table; the pool is empty.
C17_Witness ==
    /\ last.op = "pedalUp"
    /\ sustainPool = {}
    /\ \E v \in last.rel :
          /\ voices[v].key \in last.pool
          /\ FadeScheduled(v)
          /\ active[voices[v].key] = None
    /\ \E k \in heldKeys \ last.pool :
          active[k] # None /\ InTableUnreleased(active[k])

\* C18: a note-off of a held key that has a voice in the table, with the
\* pedal down, takes the key out of heldKeys, puts it in the pool, leaves
\* the table as it is (the same voice for the key) and does nothing to any
\* voice: no fade-out, no timer, no stop.
C18_NoteOffUnderPedalPoolsKey ==
    [][\A note \in PointerNotes :
         LET k == KeyOfNote(note)
         IN  (Deactivate(note) /\ sustain /\ active[k] # None) =>
                /\ heldKeys' = heldKeys \ {k}
                /\ sustainPool' = sustainPool \cup {k}
                /\ active' = active
                /\ voices' = voices
                /\ sustain']_vars

\* C18 witness: a note-off has just run with the pedal down for a key with
\* a voice; the key is in the pool, not held, and its voice is in the table
\* with no fade-out, timer or stop.
C18_Witness ==
    /\ last.op = "noteOff"
    /\ sustain
    /\ last.vs # {}
    /\ last.rel = {}
    /\ last.key \in sustainPool \ heldKeys
    /\ \A v \in last.vs : active[last.key] = v /\ InTableUnreleased(v)

\* C19: in every reachable state, pedal up or down, forceOff of any key
\* leaves the key out of the table, out of heldKeys and out of the pool
\* (also a key that has no voice), and a voice the key had gets a fade-out
\* and a deferred stop, and is not stopped at once.
C19_ForceOffClearsKey ==
    \A k \in PitchKeys :
       LET e == forceOff(Eng, k)
           v == active[k]
       IN  /\ e.active[k] = None
           /\ k \notin e.heldKeys
           /\ k \notin e.sustainPool
           /\ v # None =>
                 /\ e.voices[v].fades = voices[v].fades + 1
                 /\ e.voices[v].pending = voices[v].pending + 1
                 /\ e.voices[v].stops = voices[v].stops
                 /\ FadeScheduledIn(e.voices, v)

\* C19 witness: forceOff has just run, with the pedal down, on a held key
\* with a voice (in a force-all-off); the voice is fading, the key is in
\* none of the table, heldKeys and the pool, and another key has no voice.
C19_Witness ==
    /\ last.op \in ForceOps
    /\ sustain
    /\ \E v \in last.rel :
          /\ FadeScheduled(v)
          /\ active[voices[v].key] = None
          /\ voices[v].key \notin heldKeys \cup sustainPool
          /\ \E k \in PitchKeys \ {voices[v].key} :
                active[k] = None /\ LiveOf(k) = {}

\* C20: a pedal change, down or up, leaves heldKeys as it is; a key leaves
\* heldKeys only in a note-off of that key or in a force-all-off, and
\* enters it only in a note-on of that key.
C20_HeldSetFrame ==
    [][/\ PedalChange => heldKeys' = heldKeys
       /\ \A k \in heldKeys \ heldKeys' :
             \/ last'.op = "noteOff" /\ last'.key = k
             \/ last'.op \in ForceOps
       /\ \A k \in heldKeys' \ heldKeys :
             last'.op = "noteOn" /\ last'.key = k]_vars

\* C20 witness: the pedal has just gone up and faded a voice while a key
\* was held, and that key is still held.
C20_Witness ==
    /\ last.op = "pedalUp"
    /\ last.rel # {}
    /\ \E v \in last.vs \ last.rel : voices[v].key \in heldKeys

\* C21: the pedal going down changes the pedal flag and nothing else: the
\* table, heldKeys, the pool, every voice (fade-outs, stops, timers pending)
\* and the orientation timeouts are as they were.
C21_PedalDownOnlySetsFlag ==
    [][(PedalChange /\ ~sustain) =>
         /\ sustain'
         /\ UNCHANGED <<active, voices, heldKeys, sustainPool, orient,
                        baseOct, release>>]_vars

\* C21 witness: the pedal has just gone down while one voice was in the
\* table, held and untouched, and another was fading with its timer
\* pending; both are as they were and the pool is empty.
C21_Witness ==
    /\ last.op = "pedalDown"
    /\ sustain
    /\ sustainPool = {}
    /\ last.rel = {}
    /\ \E v \in last.vs :
          InTableUnreleased(v) /\ voices[v].key \in heldKeys
    /\ \E u \in Created : FadeScheduled(u)

\* C22: after every step, a pitch key is in heldKeys exactly when a pointer
\* or a character key holds it down; and when a pointer and a character key
\* hold the same pitch key and one of them lets go with the pedal up, the
\* key stays in heldKeys and its voice stays in the table, untouched.
C22_HeldIffAsserted ==
    [][/\ heldKeys' = Asserted(input')
       /\ \A k \in PitchKeys :
            ( /\ ~sustain
              /\ k \in Asserted(input')
              /\ last'.op \in {"noteOff", "keyup"}
              /\ last'.key = k
              /\ active[k] # None )
            => /\ k \in heldKeys'
               /\ active'[k] = active[k]
               /\ voices'[active[k]] = voices[active[k]]]_vars

\* C23: a voice that was faded out at time t under release setting r is
\* stopped only by its own timer, at a time no earlier than
\* t + max(20, r) + 50 ms, and the timer stops it; a voice is stopped
\* without a fade-out only by a note-on of its key that finds it in the
\* table.
C23_NoStopBeforeFadeEnds ==
    [][\A v \in Created :
         /\ (voices'[v].stops > voices[v].stops /\ voices[v].fades > 0) =>
               /\ TimedReleaseTimer(v)
               /\ clock.now >= clock.fadeAt[v] + 50
                                + (IF clock.rel[v] > 20 THEN clock.rel[v]
                                   ELSE 20)
         /\ TimedReleaseTimer(v) =>
               /\ voices'[v].stops = voices[v].stops + 1
               /\ voices'[v].pending = 0
         /\ (voices'[v].stops > voices[v].stops /\ voices[v].fades = 0) =>
               /\ last'.op = "noteOn"
               /\ last'.key = voices[v].key
               /\ active[voices[v].key] = v]_vars

\* C23 witness: a voice faded out under release setting 10 has been stopped
\* by its timer, 100 ms after the fade-out, and another voice has been
\* stopped without a fade-out by a note-on.
C23_Witness ==
    /\ last.op = "timer"
    /\ \E v \in last.vs :
          /\ voices[v].stops = 1 /\ voices[v].fades = 1
          /\ clock.rel[v] = 10
          /\ clock.now = clock.fadeAt[v] + 100
    /\ \E u \in Created : voices[u].stops = 1 /\ voices[u].fades = 0

\* C24: every key in heldKeys has a voice in the table, and so has every
\* key in the pool.
C24_HeldAndPoolWithinTable ==
    /\ heldKeys \subseteq ActiveKeys(Eng)
    /\ sustainPool \subseteq ActiveKeys(Eng)

\* C24 witness: a key is held and another is in the pool, and each has an
\* untouched voice in the table.
C24_Witness ==
    /\ \E k \in heldKeys \ sustainPool : KeySoundingIn(active, voices, k)
    /\ \E k \in sustainPool \ heldKeys : KeySoundingIn(active, voices, k)

\* C25: every key with a voice in the table is in heldKeys or in the pool,
\* and with the pedal up the pool is empty, so that every key with a voice
\* in the table is held.
C25_TableWithinHeldOrPool ==
    /\ ActiveKeys(Eng) \subseteq heldKeys \cup sustainPool
    /\ ~sustain => sustainPool = {}
    /\ ~sustain => ActiveKeys(Eng) \subseteq heldKeys

\* C25 witness: the pedal has gone up and released a key of the pool; the
\* pool is empty and the one voice left in the table is of a held key.
C25_Witness ==
    /\ last.op = "pedalUp"
    /\ last.pool # {}
    /\ last.rel # {}
    /\ ~sustain
    /\ sustainPool = {}
    /\ ActiveKeys(Eng) # {}
    /\ ActiveKeys(Eng) \subseteq heldKeys


\* C26: in src/piano.js, after pedal down, note-on of k, note-off of k (k is
\* pooled) and a second note-on of k (the key is pressed again and still
\* down), the pedal-up sweep does not release the voice of the second
\* note-on: that voice is still the table's entry for k and has no fade-out
\* scheduled.
C26_PianoRepressedVoiceSurvivesPedalUp ==
    [][\A k \in PitchKeys :
         ( /\ PianoPedalChange
           /\ sustain
           /\ last.op = "noteOn" /\ last.key = k /\ last.vs # {}
           /\ k \in sustainPool
           /\ k \in PressedKeys(pressed)
           /\ active[k] = Len(voices) )
         => /\ active'[k] = active[k]
            /\ voices'[active[k]].fades = 0
            /\ voices'[active[k]].pending = 0]_vars


\* C27: for a mapped character key, the pitch key that keyup removes from
\* heldKeys and hands to noteOff is the pitch key that the matching keydown
\* added to heldKeys and handed to noteOn, whatever Shift and the base octave
\* did between the two.
C27_KeyUpMatchesKeyDown ==
    [][\A c \in KeyChars :
         ( /\ input.kbd[c].down
           /\ input.kbd[c].key # None
           /\ ~input'.kbd[c].down
           /\ last'.op = "keyup" )
         => /\ last'.key = input.kbd[c].key
            /\ input.kbd[c].key \notin heldKeys']_vars

====
